---- MODULE Spec2Model ----
(***************************************************************************)
(* Winit's Wayland backend (src/platform_impl/linux/wayland/mod.rs):       *)
(* the GenericPointer cursor contract, GenericPointer equality, make_wid,  *)
(* logical_to_physical_rounded, the WaylandError taxonomy and the order of *)
(* event dispatch.                                                         *)
(***************************************************************************)
EXTENDS Integers, Sequences, FiniteSets, TLC

VARIABLES
    pointerData,   \* WinitPointerData attached to each wl_pointer object
    toolData,      \* WinitPointerData attached to each tablet tool object
    lastEnter,     \* history: serial of the last enter event sent to each device
    wire,          \* set-cursor requests sent and not yet processed by the compositor
    visible,       \* compositor side: the surface shown as each device's cursor
    ret,           \* the last cursor-setting operation called and what it returned
    \* GenericPointer equality
    lhs, rhs,      \* the two GenericPointer values compared
    eqDone,        \* whether the comparison has run
    eqResult,      \* <<lhs == rhs, rhs == lhs>>
    \* window identity
    proxyPtr,      \* address of each live surface's protocol object (0: not alive)
    destroyed,     \* the surfaces that were destroyed
    wids,          \* the WindowIds make_wid returned for each surface during its life
    \* coordinate conversion
    logical,       \* LogicalSize<u32>: width and height
    scale,         \* the scale factor, in thousandths
    physical,      \* the PhysicalSize<u32> returned
    convDone,      \* whether the conversion has run
    \* error taxonomy
    wlError,       \* the WaylandError constructed at the failure site
    osError,       \* the OsError it was converted into
    osRefs,        \* how many error sites hold the OsError
    message,       \* what the OsError rendered
    \* dispatch loop
    yielded,       \* history: every event the transport has yielded, in order
    socket,        \* events yielded and not yet read by the loop
    queue,         \* events read in this dispatch iteration and not yet handled
    handling,      \* the event whose handler is running (<<>>: none)
    started,       \* history: events whose handling has started, in order
    completed      \* history: events whose handling has completed, in order

cursorVars == <<pointerData, toolData, lastEnter, wire, visible, ret>>
eqVars == <<lhs, rhs, eqDone, eqResult>>
widVars == <<proxyPtr, destroyed, wids>>
convVars == <<logical, scale, physical, convDone>>
errVars == <<wlError, osError, osRefs, message>>
dispatchVars == <<yielded, socket, queue, handling, started, completed>>

vars == <<cursorVars, eqVars, widVars, convVars, errVars, dispatchVars>>

----------------------------------------------------------------------------
(* Bounds *)

MaxSerial == 2
MaxWire == 1
NumObjects == 4
MaxSurfaces == 3
NumAddrs == 3
NumHandles == 2
MaxRefs == 4
MaxEvents == 4

----------------------------------------------------------------------------
(* Devices, surfaces, icons *)

Default(p) == [variant |-> "Default", obj |-> p]
Tablet(t) == [variant |-> "Tablet", obj |-> t]

\* the seat's devices: one themed pointer and one tablet tool, whose protocol
\* objects carry the same object id
PointerObjs == {1}
ToolObjs == {1}
SeatDevices == {Default(p) : p \in PointerObjs} \cup {Tablet(t) : t \in ToolObjs}

Serials == 1..MaxSerial

\* Option<&WlSurface>: None, or a surface id
None == 0
CustomSurfaces == {1}
\* (surface, hotspot_x, hotspot_y) triples a caller passes to set_cursor_raw
CursorArgs == {<<None, 0, 0>>} \cup {<<c, 1, 2>> : c \in CustomSurfaces}
PointerSurfaces == [p \in PointerObjs |-> 100 + p]
ToolSurfaces == [t \in ToolObjs |-> 200 + t]

ResolvableIcons == {"default"}
UnresolvableIcons == {"zoom-in"}
CursorIcon == ResolvableIcons \cup UnresolvableIcons

WinitPointerData(s) == [latest_enter_serial |-> s]
latest_enter_serial(data) == data.latest_enter_serial

\* a set-cursor request on the wire, addressed to object obj of interface iface
Request(iface, obj, serial, surf, hx, hy) ==
    [iface |-> iface, obj |-> obj, serial |-> serial, surface |-> surf,
     hotspot_x |-> hx, hotspot_y |-> hy]

\* the device a request on the wire addresses
RequestDevice(r) == IF r.iface = "wl_pointer" THEN Default(r.obj) ELSE Tablet(r.obj)

----------------------------------------------------------------------------
(* impl GenericPointer *)

\* faulty variant: the tablet tool's data is looked up on the pointer object
winit_data_pointer_only(self) == pointerData[self.obj]

winit_data(self) ==
    IF self.variant = "Default" THEN pointerData[self.obj] ELSE toolData[self.obj]

surface(self) ==
    IF self.variant = "Default" THEN PointerSurfaces[self.obj] ELSE ToolSurfaces[self.obj]

\* faulty variant: the Tablet arm addresses the pointer object
set_cursor_raw_wrong_object(self, serial, surf, hotspot_x, hotspot_y) ==
    <<Request("wl_pointer", self.obj, serial, surf, hotspot_x, hotspot_y)>>

\* the requests set_cursor_raw puts on the wire
set_cursor_raw(self, serial, surf, hotspot_x, hotspot_y) ==
    IF self.variant = "Default"
    THEN <<Request("wl_pointer", self.obj, serial, surf, hotspot_x, hotspot_y)>>
    ELSE <<Request("tablet_tool", self.obj, serial, surf, hotspot_x, hotspot_y)>>

\* faulty variant: the Tablet arm takes the serial recorded for the pointer
clear_cursor_pointer_serial(self) ==
    IF self.variant = "Default"
    THEN <<Request("wl_pointer", self.obj, latest_enter_serial(pointerData[self.obj]), None, 0, 0)>>
    ELSE <<Request("tablet_tool", self.obj, latest_enter_serial(pointerData[self.obj]), None, 0, 0)>>

\* the requests clear_cursor puts on the wire
clear_cursor(self) ==
    IF self.variant = "Default"
    THEN <<Request("wl_pointer", self.obj, latest_enter_serial(winit_data(self)), None, 0, 0)>>
    ELSE <<Request("tablet_tool", self.obj, latest_enter_serial(winit_data(self)), None, 0, 0)>>

\* cursor theme collaborator: resolve(icon) -> Result<CursorImage, ThemeError>
resolve(icon) == icon \in ResolvableIcons

\* ThemedPointer::set_cursor and TabletPointer::set_cursor: resolve the icon in
\* the theme; on success assign the device's own cursor surface, carrying the
\* image, under the latest enter serial; on failure report the theme error
ThemedPointer_set_cursor(obj, serial, surf, icon) ==
    IF resolve(icon)
    THEN [result |-> "Ok", requests |-> <<Request("wl_pointer", obj, serial, surf, 0, 0)>>]
    ELSE [result |-> "PointerThemeError", requests |-> <<>>]

TabletPointer_set_cursor(obj, serial, surf, icon) ==
    IF resolve(icon)
    THEN [result |-> "Ok", requests |-> <<Request("tablet_tool", obj, serial, surf, 0, 0)>>]
    ELSE [result |-> "PointerThemeError", requests |-> <<>>]

\* faulty variant: an unresolved icon silently falls back to the default icon
set_cursor_fallback(self, icon) ==
    LET i == IF resolve(icon) THEN icon ELSE "default" IN
    IF self.variant = "Default"
    THEN ThemedPointer_set_cursor(self.obj, latest_enter_serial(winit_data(self)),
                                  surface(self), i)
    ELSE TabletPointer_set_cursor(self.obj, latest_enter_serial(winit_data(self)),
                                  surface(self), i)

set_cursor(self, icon) ==
    IF self.variant = "Default"
    THEN ThemedPointer_set_cursor(self.obj, latest_enter_serial(winit_data(self)),
                                  surface(self), icon)
    ELSE TabletPointer_set_cursor(self.obj, latest_enter_serial(winit_data(self)),
                                  surface(self), icon)

----------------------------------------------------------------------------
(* Actions of the cursor machine *)

notCursorVars == <<eqVars, widVars, convVars, errVars, dispatchVars>>

\* the operation called last and its Result (or "()")
Ret(op, result) == [op |-> op, result |-> result]

CursorInit ==
    /\ pointerData = [p \in PointerObjs |-> WinitPointerData(0)]
    /\ toolData = [t \in ToolObjs |-> WinitPointerData(0)]
    /\ lastEnter = [d \in SeatDevices |-> 0]
    /\ wire = <<>>
    /\ visible = [d \in SeatDevices |-> None]
    /\ ret = Ret("none", "()")

\* an enter event is observed on a device: its serial is recorded in the data
\* attached to the device's own protocol object
Enter(d, s) ==
    /\ IF d.variant = "Default"
       THEN /\ pointerData' = [pointerData EXCEPT ![d.obj] = WinitPointerData(s)]
            /\ UNCHANGED toolData
       ELSE /\ toolData' = [toolData EXCEPT ![d.obj] = WinitPointerData(s)]
            /\ UNCHANGED pointerData
    /\ lastEnter' = [lastEnter EXCEPT ![d] = s]
    /\ UNCHANGED <<wire, visible, ret, notCursorVars>>

SetCursor(d, icon) ==
    LET r == set_cursor(d, icon) IN
    /\ Len(wire) + Len(r.requests) <= MaxWire
    /\ wire' = wire \o r.requests
    /\ ret' = Ret("set_cursor", r.result)
    /\ UNCHANGED <<pointerData, toolData, lastEnter, visible, notCursorVars>>

\* faulty variant: set_cursor_raw records the caller's serial as the device's enter serial
SetCursorRaw_recording(d, serial, a) ==
    LET reqs == set_cursor_raw(d, serial, a[1], a[2], a[3]) IN
    /\ Len(wire) + Len(reqs) <= MaxWire
    /\ wire' = wire \o reqs
    /\ ret' = Ret("set_cursor_raw", "()")
    /\ IF d.variant = "Default"
       THEN /\ pointerData' = [pointerData EXCEPT ![d.obj] = WinitPointerData(serial)]
            /\ UNCHANGED toolData
       ELSE /\ toolData' = [toolData EXCEPT ![d.obj] = WinitPointerData(serial)]
            /\ UNCHANGED pointerData
    /\ UNCHANGED <<lastEnter, visible, notCursorVars>>

SetCursorRaw(d, serial, a) ==
    LET reqs == set_cursor_raw(d, serial, a[1], a[2], a[3]) IN
    /\ Len(wire) + Len(reqs) <= MaxWire
    /\ wire' = wire \o reqs
    /\ ret' = Ret("set_cursor_raw", "()")
    /\ UNCHANGED <<pointerData, toolData, lastEnter, visible, notCursorVars>>

ClearCursor(d) ==
    LET reqs == clear_cursor(d) IN
    /\ Len(wire) + Len(reqs) <= MaxWire
    /\ wire' = wire \o reqs
    /\ ret' = Ret("clear_cursor", "()")
    /\ UNCHANGED <<pointerData, toolData, lastEnter, visible, notCursorVars>>

\* surface() and winit_data() hand out references: a call changes nothing
Surface(d) ==
    /\ surface(d) \in {PointerSurfaces[p] : p \in PointerObjs} \cup {ToolSurfaces[t] : t \in ToolObjs}
    /\ UNCHANGED vars

WinitData(d) ==
    /\ latest_enter_serial(winit_data(d)) \in 0..MaxSerial
    /\ UNCHANGED vars

\* the compositor takes the oldest request off the wire; it applies the request
\* only when the serial is the device's most recent enter serial
CompositorApply(r) ==
    IF r.serial = lastEnter[RequestDevice(r)]
    THEN [visible EXCEPT ![RequestDevice(r)] = r.surface]
    ELSE visible

Compositor ==
    /\ wire # <<>>
    /\ visible' = CompositorApply(Head(wire))
    /\ wire' = Tail(wire)
    /\ UNCHANGED <<pointerData, toolData, lastEnter, ret, notCursorVars>>

----------------------------------------------------------------------------
(* impl PartialEq for GenericPointer *)

AllPointers ==
    {Default(p) : p \in 1..NumObjects} \cup {Tablet(t) : t \in 1..NumObjects}

\* faulty variant: the variants are not told apart, only the object ids are compared
eq_ids_only(self, other) == self.obj = other.obj

eq(self, other) ==
    CASE self.variant = "Default" /\ other.variant = "Default" -> self.obj = other.obj
      [] self.variant = "Tablet" /\ other.variant = "Tablet" -> self.obj = other.obj
      [] OTHER -> FALSE

EqIdle ==
    /\ lhs = Default(1)
    /\ rhs = Default(1)
    /\ eqDone = FALSE
    /\ eqResult = <<FALSE, FALSE>>

Compare ==
    /\ ~eqDone
    /\ eqDone' = TRUE
    /\ eqResult' = <<eq(lhs, rhs), eq(rhs, lhs)>>
    /\ UNCHANGED <<lhs, rhs, cursorVars, widVars, convVars, errVars, dispatchVars>>

----------------------------------------------------------------------------
(* make_wid *)

SurfaceIds == 1..MaxSurfaces
Addrs == 1..NumAddrs

\* a &WlSurface: a handle, itself stored at ref, to the surface's protocol object
Handle(s, k) == [obj |-> s, ref |-> k]
Handles == {Handle(s, k) : s \in SurfaceIds, k \in 1..NumHandles}

WindowId(n) == [id |-> n]

\* surface.id().as_ptr(): the address of the object's proxy
as_ptr(wl_surface) == proxyPtr[wl_surface.obj]

\* faulty variant: the address of the reference is taken instead of the object's
make_wid_of_reference(wl_surface) == WindowId(wl_surface.ref)

make_wid(wl_surface) == WindowId(as_ptr(wl_surface))

Live(s) == proxyPtr[s] # 0

WidInit ==
    /\ proxyPtr = [s \in SurfaceIds |-> 0]
    /\ destroyed = {}
    /\ wids = [s \in SurfaceIds |-> {}]

notWidVars == <<cursorVars, eqVars, convVars, errVars, dispatchVars>>

\* a window is constructed: its surface's proxy is allocated at a free address
CreateSurface(s, a) ==
    /\ ~Live(s)
    /\ s \notin destroyed
    /\ \A o \in SurfaceIds : proxyPtr[o] # a
    /\ proxyPtr' = [proxyPtr EXCEPT ![s] = a]
    /\ UNCHANGED <<destroyed, wids, notWidVars>>

\* the surface is destroyed and its address becomes free again
DestroySurface(s) ==
    /\ Live(s)
    /\ proxyPtr' = [proxyPtr EXCEPT ![s] = 0]
    /\ destroyed' = destroyed \cup {s}
    /\ UNCHANGED <<wids, notWidVars>>

MakeWid(wl_surface) ==
    /\ Live(wl_surface.obj)
    /\ wids' = [wids EXCEPT ![wl_surface.obj] = @ \cup {make_wid(wl_surface)}]
    /\ UNCHANGED <<proxyPtr, destroyed, notWidVars>>

----------------------------------------------------------------------------
(* logical_to_physical_rounded *)

\* Sizes and products exceed what TLC's integers hold: a non-negative integer is
\* kept as three base-2^16 digits, least significant first.
Base == 2^16

Norm(x) ==
    LET c0 == x[1] \div Base
        c1 == (x[2] + c0) \div Base
    IN  <<x[1] % Base, (x[2] + c0) % Base, x[3] + c1>>

MulSmall(x, k) == Norm(<<x[1] * k, x[2] * k, x[3] * k>>)
AddSmall(x, k) == Norm(<<x[1] + k, x[2], x[3]>>)

\* floor(x / d) for a divisor below 2^15
DivSmall(x, d) ==
    LET q2 == x[3] \div d
        c1 == (x[3] % d) * Base + x[2]
        q1 == c1 \div d
        c0 == (c1 % d) * Base + x[1]
        q0 == c0 \div d
    IN  Norm(<<q0, q1, q2>>)

Leq(x, y) ==
    \/ x[3] < y[3]
    \/ x[3] = y[3] /\ x[2] < y[2]
    \/ x[3] = y[3] /\ x[2] = y[2] /\ x[1] <= y[1]

\* the u32 with the given high and low 16 bits
U32(hi, lo) == <<lo, hi, 0>>
U32_MAX == U32(Base - 1, Base - 1)

\* scale factors are multiples of 1/ScaleDen
ScaleDen == 1000

\* size.width as f64 * scale_factor, in units of 1/ScaleDen
times(n, scale_factor) == MulSmall(n, scale_factor)

\* f64::round on a value in units of 1/ScaleDen: nearest integer, ties away from zero
round(x) == DivSmall(AddSmall(MulSmall(x, 2), ScaleDen), 2 * ScaleDen)

\* (f64, f64).into() for PhysicalSize<u32>: the f64 -> u32 cast saturates
into_u32(x) == IF Leq(x, U32_MAX) THEN x ELSE U32_MAX

\* faulty variant: the generic routine, which floors
logical_to_physical_floored(size, scale_factor) ==
    [width |-> into_u32(DivSmall(times(size.width, scale_factor), ScaleDen)),
     height |-> into_u32(DivSmall(times(size.height, scale_factor), ScaleDen))]

logical_to_physical_rounded(size, scale_factor) ==
    LET width == times(size.width, scale_factor)
        height == times(size.height, scale_factor)
    IN  [width |-> into_u32(round(width)), height |-> into_u32(round(height))]

Lengths ==
    {U32(0, 0), U32(0, 1), U32(0, 3), U32(0, 10), U32(0, Base - 1),
     U32(45776, 24064), U32_MAX}
ScaleFactors == {0, 500, 1000, 1333, 1500, 2000}

ConvIdle ==
    /\ logical = [width |-> U32(0, 0), height |-> U32(0, 0)]
    /\ scale = ScaleDen
    /\ physical = [width |-> U32(0, 0), height |-> U32(0, 0)]
    /\ convDone = FALSE

Convert ==
    /\ ~convDone
    /\ convDone' = TRUE
    /\ physical' = logical_to_physical_rounded(logical, scale)
    /\ UNCHANGED <<logical, scale, cursorVars, eqVars, widVars, errVars, dispatchVars>>

----------------------------------------------------------------------------
(* WaylandError *)

Condition(type, msg) == [type |-> type, msg |-> msg]

\* the conditions each variant wraps, each with the message it renders itself
WaylandErrors ==
    {[variant |-> "Connection", cond |-> c] :
        c \in {Condition("ConnectError", "could not load the wayland library"),
               Condition("ConnectError", "could not find a wayland compositor"),
               Condition("ConnectError", "WAYLAND_SOCKET contained garbage")}}
    \cup
    {[variant |-> "Global", cond |-> c] :
        c \in {Condition("GlobalError", "backend error"),
               Condition("GlobalError", "invalid object id")}}
    \cup
    {[variant |-> "Bind", cond |-> c] :
        c \in {Condition("BindError", "requested version of the global is not supported"),
               Condition("BindError", "requested global was not found in the registry")}}
    \cup
    {[variant |-> "Dispatch", cond |-> c] :
        c \in {Condition("DispatchError", "bad message for object"),
               Condition("DispatchError", "backend error")}}
    \cup
    {[variant |-> "Calloop", cond |-> c] :
        c \in {Condition("calloop::Error", "invalid token provided to internal function"),
               Condition("calloop::Error", "underlying IO error")}}
    \cup
    {[variant |-> "Wire", cond |-> c] :
        c \in {Condition("backend::WaylandError", "io error"),
               Condition("backend::WaylandError", "protocol error")}}

NoError == [variant |-> "none", cond |-> Condition("none", "")]
NoOsError == [variant |-> "none", arc |-> NoError]
NotRendered == [rendered |-> FALSE, text |-> ""]

\* error.fmt(f): the wrapped condition writes its own message
fmt(error) == error.msg

\* faulty variant: the Global arm writes a label of its own
Display_labelled(self) ==
    CASE self.variant = "Connection" -> fmt(self.cond)
      [] self.variant = "Global" -> "error binding the global"
      [] self.variant = "Bind" -> fmt(self.cond)
      [] self.variant = "Dispatch" -> fmt(self.cond)
      [] self.variant = "Calloop" -> fmt(self.cond)
      [] self.variant = "Wire" -> fmt(self.cond)

\* impl Display for WaylandError
Display(self) ==
    CASE self.variant = "Connection" -> fmt(self.cond)
      [] self.variant = "Global" -> fmt(self.cond)
      [] self.variant = "Bind" -> fmt(self.cond)
      [] self.variant = "Dispatch" -> fmt(self.cond)
      [] self.variant = "Calloop" -> fmt(self.cond)
      [] self.variant = "Wire" -> fmt(self.cond)

\* impl From<WaylandError> for OsError: Self::WaylandError(Arc::new(value))
From(value) == [variant |-> "WaylandError", arc |-> value]

\* impl Display for OsError: the WaylandError variant renders the shared error
OsError_Display(self) == Display(self.arc)

ErrInit ==
    /\ wlError = NoError
    /\ osError = NoOsError
    /\ osRefs = 0
    /\ message = NotRendered

notErrVars == <<cursorVars, eqVars, widVars, convVars, dispatchVars>>

\* a fallible operation fails and constructs its WaylandError
Fail(e) ==
    /\ wlError = NoError
    /\ wlError' = e
    /\ UNCHANGED <<osError, osRefs, message, notErrVars>>

\* the error is converted on its way up
ConvertError ==
    /\ wlError # NoError
    /\ osRefs = 0
    /\ osError' = From(wlError)
    /\ osRefs' = 1
    /\ UNCHANGED <<wlError, message, notErrVars>>

\* another error site takes a reference to the same OsError
ShareError ==
    /\ osRefs > 0
    /\ osRefs < MaxRefs
    /\ osRefs' = osRefs + 1
    /\ UNCHANGED <<wlError, osError, message, notErrVars>>

RenderError ==
    /\ osRefs > 0
    /\ ~message.rendered
    /\ message' = [rendered |-> TRUE, text |-> OsError_Display(osError)]
    /\ UNCHANGED <<wlError, osError, osRefs, notErrVars>>

----------------------------------------------------------------------------
(* Dispatch loop *)

ProtocolObjects == {"surface", "output", "seat"}

Event(n, obj) == [seq |-> n, obj |-> obj]

DispatchInit ==
    /\ yielded = <<>>
    /\ socket = <<>>
    /\ queue = <<>>
    /\ handling = <<>>
    /\ started = <<>>
    /\ completed = <<>>

notDispatchVars == <<cursorVars, eqVars, widVars, convVars, errVars>>

\* the transport yields the next event, addressed to some protocol object
TransportYield(obj) ==
    /\ Len(yielded) < MaxEvents
    /\ yielded' = Append(yielded, Event(Len(yielded) + 1, obj))
    /\ socket' = Append(socket, Event(Len(yielded) + 1, obj))
    /\ UNCHANGED <<queue, handling, started, completed, notDispatchVars>>

\* faulty variant: the events read are sorted into one stream per protocol object
read_per_object(events) ==
    SelectSeq(events, LAMBDA e : e.obj = "surface")
      \o SelectSeq(events, LAMBDA e : e.obj = "output")
      \o SelectSeq(events, LAMBDA e : e.obj = "seat")

\* the events a dispatch iteration takes off the transport, in the order read
read(events) == events

\* a dispatch iteration begins: the loop wakes up and reads what the transport holds
DispatchRead ==
    /\ queue = <<>>
    /\ handling = <<>>
    /\ socket # <<>>
    /\ queue' = read(socket)
    /\ socket' = <<>>
    /\ UNCHANGED <<yielded, handling, started, completed, notDispatchVars>>

\* the next event of the iteration is handed to its object's handler
HandleStart ==
    /\ handling = <<>>
    /\ queue # <<>>
    /\ handling' = <<Head(queue)>>
    /\ queue' = Tail(queue)
    /\ started' = Append(started, Head(queue))
    /\ UNCHANGED <<yielded, socket, completed, notDispatchVars>>

\* the handler returns
HandleEnd ==
    /\ handling # <<>>
    /\ completed' = Append(completed, handling[1])
    /\ handling' = <<>>
    /\ UNCHANGED <<yielded, socket, queue, started, notDispatchVars>>

----------------------------------------------------------------------------
(* Specifications *)

Init ==
    /\ CursorInit /\ EqIdle /\ WidInit /\ ConvIdle /\ ErrInit /\ DispatchInit

Next ==
    \/ \E d \in SeatDevices, s \in Serials : Enter(d, s)
    \/ \E d \in SeatDevices, icon \in CursorIcon : SetCursor(d, icon)
    \/ \E d \in SeatDevices, s \in 0..MaxSerial, a \in CursorArgs : SetCursorRaw(d, s, a)
    \/ \E d \in SeatDevices : ClearCursor(d)
    \/ \E d \in SeatDevices : Surface(d)
    \/ \E d \in SeatDevices : WinitData(d)
    \/ Compositor


Spec == Init /\ [][Next]_vars

\* GenericPointer equality on every pair of values
InitEq ==
    /\ lhs \in AllPointers
    /\ rhs \in AllPointers
    /\ eqDone = FALSE
    /\ eqResult = <<FALSE, FALSE>>
    /\ CursorInit /\ WidInit /\ ConvIdle /\ ErrInit /\ DispatchInit

NextEq == Compare

SpecEq == InitEq /\ [][NextEq]_vars

\* surfaces created and destroyed, make_wid called on live ones
NextWid ==
    \/ \E s \in SurfaceIds, a \in Addrs : CreateSurface(s, a)
    \/ \E s \in SurfaceIds : DestroySurface(s)
    \/ \E h \in Handles : MakeWid(h)

SpecWid == Init /\ [][NextWid]_vars

\* logical_to_physical_rounded on every size and scale factor
InitConv ==
    /\ logical \in [width : Lengths, height : Lengths]
    /\ scale \in ScaleFactors
    /\ physical = [width |-> U32(0, 0), height |-> U32(0, 0)]
    /\ convDone = FALSE
    /\ CursorInit /\ EqIdle /\ WidInit /\ ErrInit /\ DispatchInit

NextConv == Convert

SpecConv == InitConv /\ [][NextConv]_vars

\* errors raised, converted, shared and rendered
NextErr ==
    \/ \E e \in WaylandErrors : Fail(e)
    \/ ConvertError
    \/ ShareError
    \/ RenderError

SpecErr == Init /\ [][NextErr]_vars

\* the dispatch loop
NextDispatch ==
    \/ \E obj \in ProtocolObjects : TransportYield(obj)
    \/ DispatchRead
    \/ HandleStart
    \/ HandleEnd

SpecDispatch == Init /\ [][NextDispatch]_vars

----------------------------------------------------------------------------
(* Properties of the cursor machine *)

\* the interface of the protocol object a GenericPointer wraps
ObjectInterface(d) == IF d.variant = "Default" THEN "wl_pointer" ELSE "tablet_tool"

\* C1: clear_cursor issues exactly one set-cursor request, to its own device,
\* with no surface, hotspot (0,0) and the serial of the last enter event that
\* device observed (never another device's, never a caller-supplied one).
C1_ClearUsesOwnEnterSerial ==
    [][\A d \in SeatDevices :
         ClearCursor(d) =>
           wire' = Append(wire, Request(ObjectInterface(d), d.obj, lastEnter[d], None, 0, 0))]_vars

\* a clear request of the tablet tool is on the wire while the pointer holds
\* another enter serial
C1_Witness ==
    /\ ret.op = "clear_cursor"
    /\ wire # <<>>
    /\ wire[Len(wire)].iface = "tablet_tool"
    /\ wire[Len(wire)].surface = None
    /\ lastEnter[Tablet(1)] # 0
    /\ lastEnter[Default(1)] # 0
    /\ lastEnter[Default(1)] # lastEnter[Tablet(1)]

\* C4: set_cursor with an icon the theme cannot resolve returns the theme error,
\* issues no set-cursor request and leaves the visible cursors as they were.
C4_UnresolvedIconNoMutation ==
    [][\A d \in SeatDevices, icon \in UnresolvableIcons :
         SetCursor(d, icon) =>
           /\ ret'.result = "PointerThemeError"
           /\ wire' = wire
           /\ visible' = visible]_vars

\* set_cursor has failed on a device whose themed cursor is visible
C4_Witness ==
    /\ ret.op = "set_cursor"
    /\ ret.result = "PointerThemeError"
    /\ \E d \in SeatDevices : visible[d] = surface(d)

\* C7: set_cursor_raw puts exactly one request on the wire, to the object of its
\* own variant, with its four arguments unchanged, and returns nothing; the
\* compositor ignores a request with a stale serial, and hides the cursor on an
\* accepted request with no surface.
C7_RawRequestAndCompositor ==
    [][/\ \A d \in SeatDevices, s \in 0..MaxSerial, a \in CursorArgs :
            ret'.op = "set_cursor_raw" /\ SetCursorRaw(d, s, a) =>
              /\ wire' = Append(wire, Request(ObjectInterface(d), d.obj, s, a[1], a[2], a[3]))
              /\ ret'.result = "()"
       /\ Compositor =>
            LET r == Head(wire)
                dev == IF r.iface = "wl_pointer" THEN Default(r.obj) ELSE Tablet(r.obj)
            IN  /\ r.serial # lastEnter[dev] => visible' = visible
                /\ r.serial = lastEnter[dev] /\ r.surface = None => visible'[dev] = None
                /\ \A o \in SeatDevices \ {dev} : visible'[o] = visible[o]
                /\ ret' = ret]_vars

\* a raw request with a custom surface and a stale serial is on the wire
C7_Witness ==
    /\ ret.op = "set_cursor_raw"
    /\ wire # <<>>
    /\ Head(wire).iface = "tablet_tool"
    /\ Head(wire).surface \in CustomSurfaces
    /\ Head(wire).hotspot_x # Head(wire).hotspot_y
    /\ Head(wire).serial # lastEnter[Tablet(1)]
    /\ visible[Tablet(1)] = surface(Tablet(1))

\* C9: for either variant, winit_data().latest_enter_serial() is the serial of
\* the last enter event observed on that device (0 before the first one); a
\* Default and a Tablet device with the same enter history read the same value.
C9_WinitDataReadsLastEnter ==
    /\ \A d \in SeatDevices : latest_enter_serial(winit_data(d)) = lastEnter[d]
    /\ \A p \in PointerObjs, t \in ToolObjs :
         lastEnter[Default(p)] = lastEnter[Tablet(t)] =>
           latest_enter_serial(winit_data(Default(p))) = latest_enter_serial(winit_data(Tablet(t)))

\* both devices have observed enter events, with different serials, and each
\* reads its own
C9_Witness ==
    /\ latest_enter_serial(winit_data(Tablet(1))) = lastEnter[Tablet(1)]
    /\ latest_enter_serial(winit_data(Default(1))) = lastEnter[Default(1)]
    /\ lastEnter[Tablet(1)] # 0
    /\ lastEnter[Default(1)] # 0
    /\ lastEnter[Default(1)] # lastEnter[Tablet(1)]

\* C10: set_cursor, set_cursor_raw, clear_cursor, surface and winit_data leave
\* every device's recorded enter serial unchanged; a device's recorded serial
\* changes only in an enter event on that device.
C10_CursorOpsKeepSerials ==
    [][/\ (pointerData' # pointerData \/ toolData' # toolData) =>
            ~ (\/ \E d \in SeatDevices, icon \in CursorIcon : SetCursor(d, icon)
               \/ \E d \in SeatDevices, s \in 0..MaxSerial, a \in CursorArgs : SetCursorRaw(d, s, a)
               \/ \E d \in SeatDevices : ClearCursor(d) \/ Surface(d) \/ WinitData(d))
       /\ \A d \in SeatDevices :
            winit_data(d)' # winit_data(d) => \E s \in Serials : Enter(d, s)]_vars

\* set_cursor_raw was called with a serial that is not the device's recorded one
C10_Witness ==
    /\ ret.op = "set_cursor_raw"
    /\ wire # <<>>
    /\ \E d \in SeatDevices :
         /\ wire[Len(wire)].iface = ObjectInterface(d)
         /\ wire[Len(wire)].serial # latest_enter_serial(winit_data(d))
         /\ latest_enter_serial(winit_data(d)) # 0

----------------------------------------------------------------------------
(* Properties of GenericPointer equality *)

\* C2: a == b holds iff both are Default with the same pointer object or both
\* are Tablet with the same tool object; a Default and a Tablet value are never
\* equal, in either argument order, even when the object ids coincide.
C2_EqualityByVariantAndIdentity ==
    eqDone =>
      /\ eqResult[1] <=> (lhs.variant = rhs.variant /\ lhs.obj = rhs.obj)
      /\ eqResult[2] <=> (lhs.variant = rhs.variant /\ lhs.obj = rhs.obj)
      /\ lhs.variant # rhs.variant => ~eqResult[1] /\ ~eqResult[2]

\* a Default and a Tablet value with the same object id have been compared
C2_Witness ==
    /\ eqDone
    /\ lhs = Default(2)
    /\ rhs = Tablet(2)
    /\ eqResult = <<FALSE, FALSE>>

----------------------------------------------------------------------------
(* Properties of make_wid *)

\* C3: two distinct live surfaces never have the same WindowId, through whatever
\* references make_wid is called; every WindowId make_wid returned for a live
\* surface equals the one a call returns now.
C3_WidInjectiveAndStable ==
    /\ \A h1 \in Handles, h2 \in Handles :
         Live(h1.obj) /\ Live(h2.obj) /\ h1.obj # h2.obj => make_wid(h1) # make_wid(h2)
    /\ \A h \in Handles :
         Live(h.obj) => \A w \in wids[h.obj] : w = make_wid(h)

\* two live surfaces have had make_wid called while a destroyed surface's address
\* is in use again
C3_Witness ==
    \E s1 \in SurfaceIds, s2 \in SurfaceIds, d \in destroyed :
      /\ s1 # s2
      /\ Live(s1) /\ Live(s2)
      /\ wids[s1] # {} /\ wids[s2] # {}
      /\ wids[d] = wids[s1]

----------------------------------------------------------------------------
(* Properties of logical_to_physical_rounded *)

\* r is a nearest integer to n * scale_factor / ScaleDen
Nearest(r, n, scale_factor) ==
    LET twiceR == MulSmall(r, 2 * ScaleDen)
        twiceX == MulSmall(MulSmall(n, scale_factor), 2)
    IN  /\ Leq(twiceR, AddSmall(twiceX, ScaleDen))
        /\ Leq(twiceX, AddSmall(twiceR, ScaleDen))

\* n * scale_factor / ScaleDen rounds to a value a u32 holds
FitsU32(n, scale_factor) ==
    ~ Leq(MulSmall(<<0, 0, 1>>, 2 * ScaleDen),
          AddSmall(MulSmall(MulSmall(n, scale_factor), 2), ScaleDen))

\* C5 as stated: for every size and scale factor, each axis of the result is
\* logical * scale rounded to the nearest integer.
C5_RoundedForEveryInput ==
    convDone =>
      /\ Nearest(physical.width, logical.width, scale)
      /\ Nearest(physical.height, logical.height, scale)

\* C5, amended: each axis of the result is logical * scale rounded to the nearest
\* integer (not floored) whenever that integer fits a u32, and u32::MAX when it
\* does not; 0x0 gives 0x0, 10x10 at 1.5 gives 15x15 and 3x3 at 1.333 gives 4x4.
C5_RoundedWhenInRange ==
    convDone =>
      /\ FitsU32(logical.width, scale) => Nearest(physical.width, logical.width, scale)
      /\ FitsU32(logical.height, scale) => Nearest(physical.height, logical.height, scale)
      /\ ~FitsU32(logical.width, scale) => physical.width = U32_MAX
      /\ ~FitsU32(logical.height, scale) => physical.height = U32_MAX
      /\ logical.width = U32(0, 0) => physical.width = U32(0, 0)
      /\ logical.height = U32(0, 0) => physical.height = U32(0, 0)
      /\ logical.width = U32(0, 10) /\ scale = 1500 => physical.width = U32(0, 15)
      /\ logical.height = U32(0, 3) /\ scale = 1333 => physical.height = U32(0, 4)

\* 3x10 at 1.333 has been converted: 3.999 became 4 and 13.33 became 13
C5_Witness ==
    /\ convDone
    /\ logical = [width |-> U32(0, 3), height |-> U32(0, 10)]
    /\ scale = 1333
    /\ physical = [width |-> U32(0, 4), height |-> U32(0, 13)]

----------------------------------------------------------------------------
(* Properties of the error taxonomy *)

\* C6: the converted OsError holds the WaylandError as it was constructed, variant
\* and wrapped condition, and renders a non-empty message equal to the wrapped
\* condition's own.
C6_ConversionKeepsErrorAndMessage ==
    osRefs > 0 =>
      /\ osError.variant = "WaylandError"
      /\ osError.arc.variant = wlError.variant
      /\ osError.arc.cond = wlError.cond
      /\ message.rendered =>
           /\ message.text # ""
           /\ message.text = wlError.cond.msg

\* a Global error has been converted, shared and rendered
C6_Witness ==
    /\ wlError.variant = "Global"
    /\ osRefs > 1
    /\ message.rendered

----------------------------------------------------------------------------
(* Properties of the dispatch loop *)

IsPrefix(p, q) == Len(p) <= Len(q) /\ \A i \in 1..Len(p) : p[i] = q[i]

\* C8: events are handled in exactly the order the transport yielded them, and
\* the handling of an event completes before the handling of the next one starts,
\* across dispatch iterations and protocol objects.
C8_HandledInTransportOrder ==
    /\ IsPrefix(started, yielded)
    /\ IsPrefix(completed, started)
    /\ Len(started) <= Len(completed) + 1
    /\ handling # <<>> => Len(started) = Len(completed) + 1 /\ handling[1] = started[Len(started)]
    /\ handling = <<>> => started = completed

\* events for different protocol objects have been handled, the iteration has
\* another event to handle and the transport already holds one for the next
C8_Witness ==
    /\ Len(completed) >= 2
    /\ completed[1].obj # completed[2].obj
    /\ queue # <<>>
    /\ queue[1].obj = "surface"
    /\ socket # <<>>

====
